---------------------------- MODULE Spec2Model ----------------------------
(***************************************************************************)
(* Model of the banking agent: BankingAgent (agent_core.py), its fallback  *)
(* Memory, and the BankingTools ledger (banking_tools.py).                 *)
(*                                                                         *)
(* Utterances are TLA+ strings and are analysed character by character,    *)
(* the way the regular expressions and substring tests of                  *)
(* parse_intent_slots analyse them.  Amounts are Python floats in the      *)
(* code; here they are integers counted in units of 1/Scale, and every     *)
(* number the model feeds in has at most one fractional digit.            *)
(* Python's None is Null for strings and NoNum for numbers.  What the      *)
(* agent prints on the console (clear_console, last_result) is left out.   *)
(***************************************************************************)
EXTENDS Integers, Sequences, FiniteSets, TLC

(***************************************************************************)
(* Bounds of the model.                                                    *)
(***************************************************************************)
MaxTxns == 3
MaxWords == 2

(***************************************************************************)
(* Representation of Python values.                                        *)
(***************************************************************************)
Null == "<None>"
NoNum == -1
Scale == 10

(***************************************************************************)
(* Characters and strings.                                                 *)
(***************************************************************************)
Ch(s, i) == IF i >= 1 /\ i <= Len(s) THEN SubSeq(s, i, i) ELSE ""
From(s, i) == SubSeq(s, i, Len(s))
UpperLetters == "ABCDEFGHIJKLMNOPQRSTUVWXYZ"
LowerLetters == "abcdefghijklmnopqrstuvwxyz"
DigitChars == "0123456789"
IndexIn(c, alphabet) ==
  IF \E i \in 1..Len(alphabet) : Ch(alphabet, i) = c
  THEN CHOOSE i \in 1..Len(alphabet) : Ch(alphabet, i) = c
  ELSE 0
\* the characters of each class, and the tables over them, computed once
DigitSet == {Ch(DigitChars, i) : i \in 1..Len(DigitChars)}
UpperSet == {Ch(UpperLetters, i) : i \in 1..Len(UpperLetters)}
LowerSet == {Ch(LowerLetters, i) : i \in 1..Len(LowerLetters)}
DigitOf == [c \in DigitSet |-> IndexIn(c, DigitChars) - 1]
LowerOf == [c \in UpperSet |-> Ch(LowerLetters, IndexIn(c, UpperLetters))]
UpperOf == [c \in LowerSet |-> Ch(UpperLetters, IndexIn(c, LowerLetters))]
IsDigit(c) == c \in DigitSet
IsAlpha(c) == c \in UpperSet \/ c \in LowerSet
IsWordChar(c) == IsAlpha(c) \/ IsDigit(c) \/ c = "_"
IsSpace(c) == c = " "
IsNameChar(c) == IsAlpha(c) \/ IsDigit(c) \/ c = " " \/ c = "_" \/ c = "-"
DigitVal(c) == IF c \in DigitSet THEN DigitOf[c] ELSE -1
LowerCh(c) == IF c \in UpperSet THEN LowerOf[c] ELSE c
UpperCh(c) == IF c \in LowerSet THEN UpperOf[c] ELSE c

RECURSIVE Lower(_)
\* str.lower()
Lower(s) == IF s = "" THEN "" ELSE LowerCh(Ch(s, 1)) \o Lower(From(s, 2))

\* str.title() of a single lower-case word
Title(s) == IF s = "" THEN "" ELSE UpperCh(Ch(s, 1)) \o From(s, 2)

RECURSIVE LStrip(_)
LStrip(s) == IF s # "" /\ IsSpace(Ch(s, 1)) THEN LStrip(From(s, 2)) ELSE s
RECURSIVE RStrip(_)
RStrip(s) ==
  IF s # "" /\ IsSpace(Ch(s, Len(s))) THEN RStrip(SubSeq(s, 1, Len(s) - 1)) ELSE s
\* str.strip()
Strip(s) == RStrip(LStrip(s))

\* s[i:].startswith(sub)
HasAt(s, sub, i) ==
  i >= 1 /\ i + Len(sub) - 1 <= Len(s) /\ SubSeq(s, i, i + Len(sub) - 1) = sub
\* sub in s
Contains(s, sub) == \E i \in 1..(Len(s) + 1) : HasAt(s, sub, i)

RECURSIVE FirstToken(_)
FirstToken(s) ==
  IF s = "" \/ IsSpace(Ch(s, 1)) THEN "" ELSE Ch(s, 1) \o FirstToken(From(s, 2))
\* s.split(): only whether it is empty and its first element are used
SplitIsEmpty(s) == LStrip(s) = ""
SplitFirst(s) == FirstToken(LStrip(s))

\* regex \b at the gap before position i
WordBoundary(s, i) == IsWordChar(Ch(s, i - 1)) # IsWordChar(Ch(s, i))

RECURSIVE SkipDigits(_, _)
\* first position at or after i that holds no digit
SkipDigits(s, i) == IF IsDigit(Ch(s, i)) THEN SkipDigits(s, i + 1) ELSE i
RECURSIVE SkipSpaces(_, _)
SkipSpaces(s, i) == IF IsSpace(Ch(s, i)) THEN SkipSpaces(s, i + 1) ELSE i

RECURSIVE DigitsValue(_, _)
\* value of the digit string s, acc being the value of the digits read so far
DigitsValue(s, acc) ==
  IF s = "" THEN acc ELSE DigitsValue(From(s, 2), acc * 10 + DigitVal(Ch(s, 1)))


(***************************************************************************)
(* Text analysis of parse_intent_slots.                                    *)
(***************************************************************************)
RECURSIVE FindNums(_, _)
\* re.findall(r"(?<!\w)(\d+(\.\d+)?)", u) converted by float(), scanning from i
FindNums(u, i) ==
  IF i > Len(u) THEN <<>>
  ELSE IF IsDigit(Ch(u, i)) /\ ~IsWordChar(Ch(u, i - 1))
       THEN LET j == SkipDigits(u, i)
                hasFrac == Ch(u, j) = "." /\ IsDigit(Ch(u, j + 1))
                k == IF hasFrac THEN SkipDigits(u, j + 1) ELSE j
                whole == DigitsValue(SubSeq(u, i, j - 1), 0)
                frac == IF hasFrac THEN DigitVal(Ch(u, j + 1)) * (Scale \div 10) ELSE 0
            IN  <<whole * Scale + frac>> \o FindNums(u, k)
       ELSE FindNums(u, i + 1)

\* float.is_integer() and int() of a float
IsInteger(x) == x % Scale = 0
ToInt(x) == x \div Scale
RECURSIVE Ints(_)
\* [int(x) for x in nums if float(x).is_integer()]
Ints(nums) ==
  IF nums = <<>> THEN <<>>
  ELSE (IF IsInteger(Head(nums)) THEN <<ToInt(Head(nums))>> ELSE <<>>) \o Ints(Tail(nums))

Months ==
  <<"january", "february", "march", "april", "may", "june", "july", "august",
    "september", "october", "november", "december">>
MonthAt(ul, i) ==
  IF \E k \in 1..Len(Months) : HasAt(ul, Months[k], i)
  THEN Months[CHOOSE k \in 1..Len(Months) :
                /\ HasAt(ul, Months[k], i)
                /\ \A l \in 1..(k - 1) : ~HasAt(ul, Months[l], i)]
  ELSE Null
RECURSIVE SearchMonth(_, _)
\* re.search of the month alternation: leftmost match, then .title()
SearchMonth(ul, i) ==
  IF i > Len(ul) THEN Null
  ELSE IF MonthAt(ul, i) # Null THEN Title(MonthAt(ul, i))
  ELSE SearchMonth(ul, i + 1)

\* length of the match of \b(rs\.|rupees|dollars?|inr)\b at position i, 0 if none
CurrencyMatchLen(s, i) ==
  IF ~WordBoundary(s, i) THEN 0
  ELSE IF HasAt(s, "rs.", i) /\ WordBoundary(s, i + 3) THEN 3
  ELSE IF HasAt(s, "rupees", i) /\ WordBoundary(s, i + 6) THEN 6
  ELSE IF HasAt(s, "dollars", i) /\ WordBoundary(s, i + 7) THEN 7
  ELSE IF HasAt(s, "dollar", i) /\ WordBoundary(s, i + 6) THEN 6
  ELSE IF HasAt(s, "inr", i) /\ WordBoundary(s, i + 3) THEN 3
  ELSE 0
RECURSIVE CleanText(_, _)
\* re.sub(r'\b(rs\.|rupees|dollars?|inr)\b', '', ul), scanning from i
CleanText(s, i) ==
  IF i > Len(s) THEN ""
  ELSE IF CurrencyMatchLen(s, i) > 0 THEN CleanText(s, i + CurrencyMatchLen(s, i))
  ELSE Ch(s, i) \o CleanText(s, i + 1)

RECURSIVE CaptureName(_, _, _)
\* the greedy tail [A-Za-z0-9 _-]{0,30} of a capture group, n characters taken so far
CaptureName(s, j, n) ==
  IF n < 31 /\ j <= Len(s) /\ IsNameChar(Ch(s, j))
  THEN Ch(s, j) \o CaptureName(s, j + 1, n + 1)
  ELSE ""
\* ([A-Za-z][A-Za-z0-9 _-]{0,30}) at position j, then .strip(); Null if no match
NameAt(s, j) == IF IsAlpha(Ch(s, j)) THEN Strip(CaptureName(s, j, 0)) ELSE Null

\* kw\s+([A-Za-z][A-Za-z0-9 _-]{0,30}) anchored at position i
KeywordNameAt(s, kw, i) ==
  IF HasAt(s, kw, i) /\ IsSpace(Ch(s, i + Len(kw)))
  THEN NameAt(s, SkipSpaces(s, i + Len(kw)))
  ELSE Null
RECURSIVE SearchKeywordName(_, _, _)
\* re.search(kw + r"\s+([A-Za-z][A-Za-z0-9 _-]{0,30})", s).group(1).strip()
SearchKeywordName(s, kw, i) ==
  IF i > Len(s) THEN Null
  ELSE IF KeywordNameAt(s, kw, i) # Null THEN KeywordNameAt(s, kw, i)
  ELSE SearchKeywordName(s, kw, i + 1)

\* pay\s+(?:bill\s+)?(?:to\s+)?([A-Za-z][A-Za-z0-9 _-]{0,30}) anchored at i
PayNameAt(s, i) ==
  IF ~(HasAt(s, "pay", i) /\ IsSpace(Ch(s, i + 3))) THEN Null
  ELSE LET p == SkipSpaces(s, i + 3)
           bill == HasAt(s, "bill", p) /\ IsSpace(Ch(s, p + 4))
           pb == SkipSpaces(s, p + 4)
           ToAt(q) == HasAt(s, "to", q) /\ IsSpace(Ch(s, q + 2))
           AfterTo(q) == SkipSpaces(s, q + 2)
       IN  IF bill /\ ToAt(pb) /\ NameAt(s, AfterTo(pb)) # Null THEN NameAt(s, AfterTo(pb))
           ELSE IF bill /\ NameAt(s, pb) # Null THEN NameAt(s, pb)
           ELSE IF ToAt(p) /\ NameAt(s, AfterTo(p)) # Null THEN NameAt(s, AfterTo(p))
           ELSE NameAt(s, p)
RECURSIVE SearchPayName(_, _)
SearchPayName(s, i) ==
  IF i > Len(s) THEN Null
  ELSE IF PayNameAt(s, i) # Null THEN PayNameAt(s, i)
  ELSE SearchPayName(s, i + 1)

\* recipient/biller capture: "from ...", else "to ...", else "pay ... bill ..."
ExtractTarget(clean) ==
  IF Contains(clean, "from") THEN SearchKeywordName(clean, "from", 1)
  ELSE IF Contains(clean, "to") THEN SearchKeywordName(clean, "to", 1)
  ELSE IF Contains(clean, "pay") /\ Contains(clean, "bill") THEN SearchPayName(clean, 1)
  ELSE Null

Categories ==
  <<"groceries", "shopping", "bills", "food", "entertainment", "petrol", "travel",
    "transfer", "income">>
\* first category of the list that occurs in ul
GuessCategory(ul) ==
  IF \E k \in 1..Len(Categories) : Contains(ul, Categories[k])
  THEN Categories[CHOOSE k \in 1..Len(Categories) :
                    /\ Contains(ul, Categories[k])
                    /\ \A l \in 1..(k - 1) : ~Contains(ul, Categories[l])]
  ELSE Null

WordToNum(w) ==
  IF w = "one" THEN 1 ELSE IF w = "two" THEN 2 ELSE IF w = "three" THEN 3
  ELSE IF w = "four" THEN 4 ELSE IF w = "five" THEN 5 ELSE 0
RECURSIVE CaptureWord(_, _)
CaptureWord(s, j) == IF IsWordChar(Ch(s, j)) THEN Ch(s, j) \o CaptureWord(s, j + 1) ELSE ""
RECURSIVE SearchLastWord(_, _)
\* re.search(r"last\s+(\w+)", ul).group(1); Null if no match
SearchLastWord(ul, i) ==
  IF i > Len(ul) THEN Null
  ELSE IF /\ HasAt(ul, "last", i) /\ IsSpace(Ch(ul, i + 4))
          /\ IsWordChar(Ch(ul, SkipSpaces(ul, i + 4)))
       THEN CaptureWord(ul, SkipSpaces(ul, i + 4))
  ELSE SearchLastWord(ul, i + 1)
\* str.isdigit()
IsDigitString(w) == w # "" /\ \A i \in 1..Len(w) : IsDigit(Ch(w, i))

\* lines 227-238: the n of "get_last_transactions" before the memory default
ExplicitN(ul, ints) ==
  IF ints # <<>> THEN ints[1]
  ELSE LET w == SearchLastWord(ul, 1) IN
       IF w = Null THEN NoNum
       ELSE IF IsDigitString(w) THEN DigitsValue(w, 0)
       ELSE IF WordToNum(w) > 0 THEN WordToNum(w)
       ELSE NoNum

\* everything parse_intent_slots derives from the utterance alone
Analyze(user) ==
  LET u == Strip(user)
      ul == Lower(u)
      nums == FindNums(u, 1)
      clean == CleanText(ul, 1)
  IN  [u |-> u, ul |-> ul, nums |-> nums, ints |-> Ints(nums),
       month |-> SearchMonth(ul, 1), clean |-> clean,
       target |-> ExtractTarget(clean), category |-> GuessCategory(ul),
       fromName |-> SearchKeywordName(clean, "from", 1), explicitN |-> ExplicitN(ul, Ints(nums))]

(***************************************************************************)
(* Memory (the fallback class of agent_core.py) and the agent record.      *)
(* An agent value ag holds the BankingAgent fields, its Memory and the     *)
(* in-memory table of its BankingTools.                                    *)
(***************************************************************************)
OpeningBalance == 50000 * Scale
NewMemory ==
  [last_amount |-> NoNum, last_recipient |-> Null, last_biller |-> Null, last_n |-> 3,
   last_month |-> Null, last_intent |-> Null, pending_transfer_to |-> Null,
   trace |-> <<>>, trace_enabled |-> FALSE]
NewTools ==
  <<[description |-> "Opening Balance", party |-> Null, amount |-> OpeningBalance,
     category |-> "Income"]>>
NewAgent ==
  [tools |-> NewTools, memory |-> NewMemory, trace_enabled |-> FALSE, trace |-> <<>>]

\* seq[-n:]
LastN(seq, n) == IF Len(seq) <= n THEN seq ELSE SubSeq(seq, Len(seq) - n + 1, Len(seq))

MemoryTraceCap == 50
AgentTraceCap == 20
\* Memory.add_trace
MemoryAddTrace(mem, kind, text) ==
  [mem EXCEPT !.trace = LastN(Append(@, [kind |-> kind, text |-> text]), MemoryTraceCap)]

EmojiKinds ==
  {"Start", "Intent", "Slots", "Thought", "Action", "Error", "Control", "Success",
   "Parse", "Tool", "Memory"}
\* emoji_map.get(kind, bullet): the marker is named after the kind it stands for
Marker(kind) == IF kind \in EmojiKinds THEN kind ELSE "bullet"
\* AddTrace that drops the newest entry of a full buffer instead of the oldest
AddTraceDropNewest(ag, kind, text) ==
  IF ~ag.trace_enabled THEN ag
  ELSE IF Len(ag.trace) >= AgentTraceCap THEN ag
  ELSE [ag EXCEPT !.trace = Append(@, [marker |-> Marker(kind), kind |-> kind, text |-> text])]
\* BankingAgent._add_trace
AddTrace(ag, kind, text) ==
  IF ~ag.trace_enabled THEN ag
  ELSE [ag EXCEPT !.trace =
          LastN(Append(@, [marker |-> Marker(kind), kind |-> kind, text |-> text]),
                AgentTraceCap)]

\* ToggleTraceOp that keeps the entries recorded so far
ToggleTraceOpKeeping(ag) ==
  LET flipped == [ag EXCEPT !.trace_enabled = ~@]
  IN  IF flipped.trace_enabled THEN AddTrace(flipped, "Control", "Trace system initialized")
      ELSE flipped
\* BankingAgent.toggle_trace
ToggleTraceOp(ag) ==
  LET flipped == [ag EXCEPT !.trace_enabled = ~@, !.trace = <<>>]
  IN  IF flipped.trace_enabled THEN AddTrace(flipped, "Control", "Trace system initialized")
      ELSE flipped

(***************************************************************************)
(* parse_intent_slots.                                                     *)
(***************************************************************************)
NoSlots ==
  [n |-> NoNum, amount |-> NoNum, target |-> Null, biller |-> Null, month |-> Null,
   category |-> Null]
HelpPhrases == {"help", "options", "what can you do", "menu"}

\* line 185 evaluates ul.split()[0], which raises IndexError on an empty ul
ClassifyRaises(a) == a.ul \notin HelpPhrases /\ a.ul # "trace" /\ SplitIsEmpty(a.ul)

\* ClassifyIntent with the transfer rule tried before the balance rule
ClassifyIntentTransferFirst(a) ==
  LET ul == a.ul IN
  IF ul \in HelpPhrases THEN "help"
  ELSE IF ul = "trace" \/ SplitFirst(ul) = "trace" THEN "toggle_trace"
  ELSE IF Contains(ul, "transfer") \/ Contains(ul, "send") \/ Contains(ul, "give")
       THEN "transfer_money"
  ELSE IF Contains(ul, "balance") \/ Contains(ul, "how much money")
          \/ Contains(ul, "how much do i have") THEN "check_balance"
  ELSE IF Contains(ul, "fraud") \/ Contains(ul, "suspicious") \/ Contains(ul, "detect")
       THEN "detect_fraud"
  ELSE IF Contains(ul, "categorize") \/ Contains(ul, "category") \/ Contains(ul, "spending")
       THEN "categorize_spending"
  ELSE IF Contains(ul, "summary") \/ Contains(ul, "month") \/ Contains(ul, "spending in")
          \/ a.month # Null THEN "monthly_summary"
  ELSE IF Contains(ul, "pay") /\ (Contains(ul, "bill") \/ Contains(ul, "pay")) THEN "pay_bill"
  ELSE IF (Contains(ul, "deposit") \/ Contains(ul, "add"))
          /\ (Contains(ul, "from") \/ Len(a.nums) > 0) THEN "deposit_money"
  ELSE IF Contains(ul, "transaction") \/ Contains(ul, "transactions") \/ Contains(ul, "last")
          \/ Contains(ul, "recent") \/ Contains(ul, "spent") \/ Strip(ul) = "show"
       THEN "get_last_transactions"
  ELSE "fallback"

\* the if/elif chain of the intent rules, for an analysis a that does not raise
ClassifyIntent(a) ==
  LET ul == a.ul IN
  IF ul \in HelpPhrases THEN "help"
  ELSE IF ul = "trace" \/ SplitFirst(ul) = "trace" THEN "toggle_trace"
  ELSE IF Contains(ul, "balance") \/ Contains(ul, "how much money")
          \/ Contains(ul, "how much do i have") THEN "check_balance"
  ELSE IF Contains(ul, "fraud") \/ Contains(ul, "suspicious") \/ Contains(ul, "detect")
       THEN "detect_fraud"
  ELSE IF Contains(ul, "categorize") \/ Contains(ul, "category") \/ Contains(ul, "spending")
       THEN "categorize_spending"
  ELSE IF Contains(ul, "summary") \/ Contains(ul, "month") \/ Contains(ul, "spending in")
          \/ a.month # Null THEN "monthly_summary"
  ELSE IF Contains(ul, "pay") /\ (Contains(ul, "bill") \/ Contains(ul, "pay")) THEN "pay_bill"
  ELSE IF (Contains(ul, "deposit") \/ Contains(ul, "add"))
          /\ (Contains(ul, "from") \/ Len(a.nums) > 0) THEN "deposit_money"
  ELSE IF Contains(ul, "transfer") \/ Contains(ul, "send") \/ Contains(ul, "give")
       THEN "transfer_money"
  ELSE IF Contains(ul, "transaction") \/ Contains(ul, "transactions") \/ Contains(ul, "last")
          \/ Contains(ul, "recent") \/ Contains(ul, "spent") \/ Strip(ul) = "show"
       THEN "get_last_transactions"
  ELSE "fallback"

\* lines 207-214: the slots as extracted
RawSlots(a) ==
  [n |-> NoNum, amount |-> IF a.nums = <<>> THEN NoNum ELSE a.nums[1], target |-> a.target,
   biller |-> a.target, month |-> a.month, category |-> a.category]

\* lines 217-241: what the intent found adds to the slots
RefineSlots(a, intent, mem, slots) ==
  IF intent = "deposit_money" THEN
    IF Contains(a.clean, "from") THEN
      IF a.fromName # Null THEN [slots EXCEPT !.target = a.fromName]
      ELSE IF slots.target \in {Null, ""} THEN [slots EXCEPT !.target = "unspecified source"]
      ELSE slots
    ELSE slots
  ELSE IF intent = "get_last_transactions" THEN
    IF a.explicitN \in {NoNum, 0} THEN [slots EXCEPT !.n = mem.last_n]
    ELSE [slots EXCEPT !.n = a.explicitN]
  ELSE slots

\* lines 243-249: slots still missing are filled from the memory
FillDefaults(intent, mem, slots) ==
  [slots EXCEPT
     !.n = IF @ = NoNum THEN mem.last_n ELSE @,
     !.amount = IF @ = NoNum THEN mem.last_amount ELSE @,
     !.target = IF @ = Null /\ intent # "deposit_money" THEN mem.last_recipient ELSE @]

\* slots of lines 206-249 for the intent found
BuildSlots(a, intent, mem) == FillDefaults(intent, mem, RefineSlots(a, intent, mem, RawSlots(a)))

\* PendingFollowUp with the follow-up test placed after the balance rule
PendingFollowUpAfterBalance(a, mem) ==
  a.nums # <<>> /\ mem.pending_transfer_to \notin {Null, ""} /\ ~Contains(a.ul, "balance")
\* the follow-up test of line 176: nums and memory.pending_transfer_to both truthy
PendingFollowUp(a, mem) == a.nums # <<>> /\ mem.pending_transfer_to \notin {Null, ""}

\* TrimMemoryTrace that cuts a memory trace of 50 entries already
TrimMemoryTraceAtCap(mem) ==
  IF Len(mem.trace) >= 50 THEN [mem EXCEPT !.trace = LastN(@, 20)] ELSE mem
\* lines 135-137: the memory trace is cut to its last 20 entries once it is over 50
TrimMemoryTrace(mem) ==
  IF Len(mem.trace) > 50 THEN [mem EXCEPT !.trace = LastN(@, 20)] ELSE mem

\* utterances typed in a session
SessionUtterances ==
  {"transfer to Alice", "300", "balance", "transfer 100000 to Bob", "pay 300 to electricity",
   "pay 300", "pay 100000 to electricity", "deposit 300 from salary", "balance 300",
   "show last two transactions", "show transactions", "", "hello", "transfer 50000 to Bob"}

\* utterances given to parse_intent_slots on its own: every phrase of up to
\* MaxWords words of the vocabulary, and some of other shapes
Vocabulary ==
  {"help", "trace", "balance", "fraud", "spending", "summary", "july", "pay", "bill",
   "deposit", "from", "transfer", "to", "Alice", "last", "show", "hello", "300"}
RECURSIVE Phrases(_)
Phrases(k) ==
  IF k = 1 THEN Vocabulary
  ELSE Phrases(k - 1) \cup {p \o " " \o w : p \in Phrases(k - 1), w \in Vocabulary}
OtherUtterances ==
  {"", "   ", "what can you do", "HELP", "pay 1200 to electricity", "pay bill electricity",
   "my balance after the transfer", "add 2.5", "address", "a1b2", "show last 2.5 7",
   "send 5 dollars to Bob Smith", "rs.500 to bob", " show "}
ResolveUtterances == Phrases(MaxWords) \cup OtherUtterances
Utterances == SessionUtterances \cup ResolveUtterances

\* the analysis of each utterance of the model, computed once
Analysis == [u \in Utterances |-> Analyze(u)]
Raises == [u \in Utterances |-> ClassifyRaises(Analysis[u])]
Intent == [u \in Utterances |-> IF Raises[u] THEN Null ELSE ClassifyIntent(Analysis[u])]

\* parse_intent_slots from line 138 on, ag being the agent after lines 131-137
ParseAnalysed(ag, user) ==
  IF PendingFollowUp(Analysis[user], ag.memory)
  THEN [ag |-> ag, raised |-> FALSE, intent |-> "transfer_money",
        slots |-> [NoSlots EXCEPT !.amount = Analysis[user].nums[1],
                                  !.target = ag.memory.pending_transfer_to]]
  ELSE IF Raises[user]
  THEN [ag |-> ag, raised |-> TRUE, intent |-> Null, slots |-> NoSlots]
  ELSE [ag |-> AddTrace(ag, "Thought", "Intent and slots"), raised |-> FALSE,
        intent |-> Intent[user],
        slots |-> BuildSlots(Analysis[user], Intent[user], ag.memory)]

\* parse_intent_slots: the agent afterwards, whether it raised, and (intent, slots)
ParseIntentSlots(ag, user) ==
  ParseAnalysed([AddTrace(ag, "Thought", "User input") EXCEPT !.memory = TrimMemoryTrace(@)],
                user)

(***************************************************************************)
(* BankingTools.  A tool call yields the table afterwards, whether it      *)
(* raised, and the reply.  A reply is its message kind together with the   *)
(* balance and the rows it prints.  io = "fail" is a to_csv call that      *)
(* raises (the file cannot be written); it comes after the in-memory       *)
(* table has been replaced.                                                *)
(***************************************************************************)
Reply(kind, balance, rows) == [kind |-> kind, balance |-> balance, rows |-> rows]
Msg(kind) == Reply(kind, 0, <<>>)

RECURSIVE SumAmounts(_)
SumAmounts(rows) ==
  IF rows = <<>> THEN 0 ELSE rows[Len(rows)].amount + SumAmounts(SubSeq(rows, 1, Len(rows) - 1))
\* self.transactions["amount"].sum()
Balance(rows) == SumAmounts(rows)

\* BankingTools.check_balance
CheckBalance(rows) == [tools |-> rows, raised |-> FALSE, reply |-> Reply("Balance", Balance(rows), <<>>)]

\* BankingTools.last_transactions
LastTransactions(rows, n) ==
  [tools |-> rows, raised |-> FALSE, reply |-> Reply("LastTransactions", 0, LastN(rows, n))]

\* pd.concat of one new row followed by to_csv
AppendAndSave(rows, entry, io, okKind) ==
  LET appended == Append(rows, entry) IN
  IF io = "fail" THEN [tools |-> appended, raised |-> TRUE, reply |-> Msg("OSError")]
  ELSE [tools |-> appended, raised |-> FALSE, reply |-> Reply(okKind, Balance(appended), <<>>)]

\* InsufficientFunds that lets every amount through
InsufficientFundsNever(amount, rows) == FALSE
\* InsufficientFunds with the comparison the wrong way round
InsufficientFundsReversed(amount, rows) == amount < Balance(rows)
\* the balance test of transfer and pay_bill
InsufficientFunds(amount, rows) == amount > Balance(rows)

\* BankingTools.transfer
Transfer(rows, amount, recipient, io) ==
  IF amount = NoNum \/ recipient = Null
  THEN [tools |-> rows, raised |-> FALSE, reply |-> Msg("IncompleteTransfer")]
  ELSE IF InsufficientFunds(amount, rows)
  THEN [tools |-> rows, raised |-> FALSE, reply |-> Reply("InsufficientFunds", Balance(rows), <<>>)]
  ELSE AppendAndSave(rows, [description |-> "Transfer to", party |-> recipient,
                            amount |-> -amount, category |-> "Transfer"], io, "Transferred")

\* Deposit that enters the amount as a debit
DepositAsDebit(rows, amount, source, io) ==
  IF amount = NoNum \/ source = Null
  THEN [tools |-> rows, raised |-> FALSE, reply |-> Msg("IncompleteDeposit")]
  ELSE AppendAndSave(rows, [description |-> "Deposit from", party |-> source,
                            amount |-> -amount, category |-> "Income"], io, "Deposited")
\* BankingTools.deposit
Deposit(rows, amount, source, io) ==
  IF amount = NoNum \/ source = Null
  THEN [tools |-> rows, raised |-> FALSE, reply |-> Msg("IncompleteDeposit")]
  ELSE AppendAndSave(rows, [description |-> "Deposit from", party |-> source,
                            amount |-> amount, category |-> "Income"], io, "Deposited")

\* BankingTools.pay_bill
PayBill(rows, amount, biller, io) ==
  IF amount = NoNum \/ biller = Null
  THEN [tools |-> rows, raised |-> FALSE, reply |-> Msg("IncompletePayment")]
  ELSE IF InsufficientFunds(amount, rows)
  THEN [tools |-> rows, raised |-> FALSE, reply |-> Reply("InsufficientFunds", Balance(rows), <<>>)]
  ELSE AppendAndSave(rows, [description |-> "Bill payment to", party |-> biller,
                            amount |-> -amount, category |-> "Bills"], io, "Paid")

FraudThreshold == 20000 * Scale
Abs(x) == IF x < 0 THEN -x ELSE x
RECURSIVE LargeTxns(_)
LargeTxns(rows) ==
  IF rows = <<>> THEN <<>>
  ELSE (IF Abs(Head(rows).amount) > FraudThreshold /\ Head(rows).category # "Income"
        THEN <<Head(rows)>> ELSE <<>>) \o LargeTxns(Tail(rows))
\* BankingTools.detect_fraud
DetectFraud(rows) ==
  [tools |-> rows, raised |-> FALSE,
   reply |-> IF LargeTxns(rows) = <<>> THEN Msg("NoSuspicious")
             ELSE Reply("Suspicious", 0, LargeTxns(rows))]

\* BankingTools.monthly_summary and categorize_spending: reports that leave
\* the table as it is; their text is not modelled
MonthlySummary(rows, month) == [tools |-> rows, raised |-> FALSE, reply |-> Msg("MonthlySummary")]
CategorizeSpending(rows) == [tools |-> rows, raised |-> FALSE, reply |-> Msg("SpendingAnalysis")]

(***************************************************************************)
(* BankingAgent.act and handle_query.                                      *)
(***************************************************************************)
\* Memory.remember(**kwargs) for the keywords act passes, all of them fields
Remember(mem, updates) ==
  [k \in DOMAIN mem |-> IF k \in DOMAIN updates THEN updates[k] ELSE mem[k]]

\* a branch of act that returns a reply without calling a tool
Answer(ag, kind) == [ag |-> ag, raised |-> FALSE, reply |-> Msg(kind)]
\* a branch of act that ends in "return self.tools.<tool>(...)"
AfterTool(ag, res) == [ag |-> [ag EXCEPT !.tools = res.tools], raised |-> res.raised, reply |-> res.reply]

\* the agent with its memory after memory.remember(**updates)
Remembering(ag, updates) == [ag EXCEPT !.memory = Remember(@, updates)]

\* ActGetLastTransactions that does not remember the n it used
ActGetLastTransactionsForgetful(ag, slots) ==
  LET n == IF slots.n \in {NoNum, 0} THEN ag.memory.last_n ELSE slots.n IN
  AfterTool(ag, LastTransactions(ag.tools, n))
\* act, lines 272-280
ActGetLastTransactions(ag, slots) ==
  LET n == IF slots.n \in {NoNum, 0} THEN ag.memory.last_n ELSE slots.n IN
  AfterTool(Remembering(ag, [last_n |-> n]), LastTransactions(ag.tools, n))

\* act, lines 282-301
ActDepositMoney(ag, slots, io) ==
  IF slots.amount = NoNum THEN Answer(ag, "AskDepositAmount")
  ELSE AfterTool(Remembering(ag, [last_amount |-> slots.amount]),
                 Deposit(ag.tools, slots.amount,
                         IF slots.target = Null THEN "unspecified source" ELSE slots.target, io))

\* ActTransferMoney that asks for the amount without remembering the recipient
ActTransferMoneyForgetful(ag, slots, io) ==
  IF slots.target # Null /\ slots.amount = NoNum
  THEN Answer(ag, "AskTransferAmount")
  ELSE IF slots.amount = NoNum \/ slots.target = Null
  THEN Answer(ag, "AskAmountAndRecipient")
  ELSE AfterTool(Remembering(ag, [last_amount |-> slots.amount,
                                  last_recipient |-> slots.target,
                                  pending_transfer_to |-> Null]),
                 Transfer(ag.tools, slots.amount, slots.target, io))

\* act, lines 303-327
ActTransferMoney(ag, slots, io) ==
  IF slots.target # Null /\ slots.amount = NoNum
  THEN Answer(Remembering(ag, [pending_transfer_to |-> slots.target]), "AskTransferAmount")
  ELSE IF slots.amount = NoNum \/ slots.target = Null
  THEN Answer(ag, "AskAmountAndRecipient")
  ELSE AfterTool(Remembering(ag, [last_amount |-> slots.amount,
                                  last_recipient |-> slots.target,
                                  pending_transfer_to |-> Null]),
                 Transfer(ag.tools, slots.amount, slots.target, io))

\* slots.get("target") or slots.get("biller")
BillerOf(slots) == IF slots.target \in {Null, ""} THEN slots.biller ELSE slots.target
\* act, lines 329-346
ActPayBill(ag, slots, io) ==
  IF slots.amount = NoNum THEN Answer(ag, "AskPayAmount")
  ELSE IF BillerOf(slots) = Null THEN Answer(ag, "AskBiller")
  ELSE AfterTool(Remembering(ag, [last_amount |-> slots.amount,
                                  last_biller |-> BillerOf(slots)]),
                 PayBill(ag.tools, slots.amount, BillerOf(slots), io))

\* act, lines 348-355
ActMonthlySummary(ag, slots) ==
  LET month == IF slots.month \notin {Null, ""} THEN slots.month
               ELSE IF ag.memory.last_month \notin {Null, ""} THEN ag.memory.last_month
               ELSE "August" IN
  AfterTool(Remembering(ag, [last_month |-> month]), MonthlySummary(ag.tools, month))

\* the body of act's try block (lines 262-365)
ActBody(ag, intent, slots, io) ==
  IF intent = "help" THEN Answer(ag, "Capabilities")
  ELSE IF intent = "toggle_trace" THEN Answer(ToggleTraceOp(ag), "TraceToggled")
  ELSE IF intent = "check_balance" THEN AfterTool(ag, CheckBalance(ag.tools))
  ELSE IF intent = "get_last_transactions" THEN ActGetLastTransactions(ag, slots)
  ELSE IF intent = "deposit_money" THEN ActDepositMoney(ag, slots, io)
  ELSE IF intent = "transfer_money" THEN ActTransferMoney(ag, slots, io)
  ELSE IF intent = "pay_bill" THEN ActPayBill(ag, slots, io)
  ELSE IF intent = "monthly_summary" THEN ActMonthlySummary(ag, slots)
  ELSE IF intent = "detect_fraud" THEN AfterTool(ag, DetectFraud(ag.tools))
  ELSE IF intent = "categorize_spending" THEN AfterTool(ag, CategorizeSpending(ag.tools))
  ELSE Answer(AddTrace(ag, "Thought", "No intent matched"), "NotUnderstood")

\* CatchException without the except clause: the exception goes on to the caller
CatchExceptionMissing(res) == res
\* the except clause of act (lines 367-369): an exception becomes a reply
CatchException(res) ==
  IF res.raised
  THEN [ag |-> AddTrace(res.ag, "Error", "exception text"), raised |-> FALSE,
        reply |-> Msg("SorryError")]
  ELSE res

\* BankingAgent.act; hasSlots is the truth value of the slots dict
Act(ag, intent, slots, hasSlots, io) ==
  LET ag1 == AddTrace(ag, "Action", "Processing command")
      ag2 == IF hasSlots THEN AddTrace(ag1, "Thought", "Parameters detected") ELSE ag1
  IN  CatchException(ActBody(ag2, intent, slots, io))

\* lines 373-384 of handle_query: with tracing on, both traces start afresh
ResetTraces(ag) ==
  IF ag.trace_enabled
  THEN AddTrace([ag EXCEPT !.memory.trace = <<>>, !.trace = <<>>], "Control",
                "Trace system initialized")
  ELSE ag

\* lines 402-407 and 409-411 of handle_query: p was resolved and act returned r
FinishQuery(p, r) ==
  IF r.raised
  THEN [ag |-> AddTrace(r.ag, "Error", "Failed to process command"), raised |-> TRUE,
        reply |-> r.reply, intent |-> p.intent, slots |-> p.slots]
  ELSE [ag |-> AddTrace(r.ag, "Success", "Command completed successfully"),
        raised |-> FALSE, reply |-> r.reply, intent |-> p.intent, slots |-> p.slots]

\* lines 391-396 of handle_query: the trace entries about what was parsed
TraceParsed(ag, slots) ==
  IF slots # NoSlots
  THEN AddTrace(AddTrace(ag, "Parse", "Detected command type"), "Parse", "Found parameters")
  ELSE AddTrace(ag, "Parse", "Detected command type")

\* lines 391-411 of handle_query: p is what parse_intent_slots returned
HandleParsed(p, io) ==
  IF p.raised
  THEN [ag |-> AddTrace(p.ag, "Error", "Failed to process command"), raised |-> TRUE,
        reply |-> Msg("IndexError"), intent |-> Null, slots |-> NoSlots]
  ELSE FinishQuery(p, Act(AddTrace(TraceParsed(p.ag, p.slots), "Action", "Executing command"),
                           p.intent, p.slots, TRUE, io))

\* BankingAgent.handle_query: the agent afterwards, whether the call raised,
\* the reply, and the (intent, slots) it resolved
HandleQuery(ag, user, io) ==
  HandleParsed(ParseIntentSlots(AddTrace(ResetTraces(ag), "Start", "Processing command"),
                                user), io)

(***************************************************************************)
(* The session: one agent, driven by the calls main.py makes.              *)
(*   agent   the BankingAgent with its Memory and its BankingTools table   *)
(*   op      the call made last                                            *)
(*   before  the agent as it was when that call was made                   *)
(*   result  what that call returned: raised, reply, and for handle_query  *)
(*           the (intent, slots) it resolved                               *)
(***************************************************************************)
VARIABLES agent, op, before, result
vars == <<agent, op, before, result>>

IO == {"ok", "fail"}
NoOp ==
  [name |-> "none", user |-> Null, intent |-> Null, slots |-> NoSlots, io |-> "ok",
   kind |-> Null, text |-> Null]
NoResult == [raised |-> FALSE, reply |-> Msg("none"), intent |-> Null, slots |-> NoSlots]

Init ==
  /\ agent = NewAgent
  /\ op = NoOp
  /\ before = NewAgent
  /\ result = NoResult

\* the call whose outcome is r is within the bounds of the model; a failing
\* to_csv (io = "fail") is considered only for calls that write the table
Allowed(r, io) ==
  /\ Len(r.ag.tools) <= MaxTxns
  /\ (io = "fail" => Len(r.ag.tools) > Len(agent.tools))

\* the call "called" returns with outcome r
Returns(r, called) ==
  /\ agent' = r.ag
  /\ op' = called
  /\ before' = agent
  /\ result' = [raised |-> r.raised, reply |-> r.reply, intent |-> r.intent, slots |-> r.slots]

\* reply = agent.handle_query(user)
HandleQueryStep(user, io) ==
  /\ Allowed(HandleQuery(agent, user, io), io)
  /\ Returns(HandleQuery(agent, user, io),
             [NoOp EXCEPT !.name = "handle_query", !.user = user, !.io = io])

\* the outcome r of a call of act or parse_intent_slots with what it was called for
Called(r, intent, slots) == [ag |-> r.ag, raised |-> r.raised, reply |-> r.reply, intent |-> intent, slots |-> slots]

\* main.py line 35: print(agent.toggle_trace())
ToggleTraceStep ==
  Returns([ag |-> ToggleTraceOp(agent), raised |-> FALSE, reply |-> Msg("TraceToggled"),
           intent |-> Null, slots |-> NoSlots],
          [NoOp EXCEPT !.name = "toggle_trace"])

\* main.py line 39: print(agent.act("help", {}))
HelpStep ==
  Returns(Called(Act(agent, "help", NoSlots, FALSE, "ok"), "help", NoSlots),
          [NoOp EXCEPT !.name = "act", !.intent = "help"])

Next ==
  \/ \E user \in SessionUtterances, io \in IO : HandleQueryStep(user, io)
  \/ HelpStep

Spec == Init /\ [][Next]_vars

(***************************************************************************)
(* The trace buffers: a session in which, besides handle_query and         *)
(* toggle_trace, entries are recorded directly with agent._add_trace and   *)
(* agent.memory.add_trace.  The entries recorded are taken in rotation     *)
(* from RecordEntries, so that neighbours in a buffer differ and the       *)
(* buffers take finitely many values.                                      *)
(***************************************************************************)
RecordEntries ==
  <<[kind |-> "Thought", text |-> "t1"], [kind |-> "Tool", text |-> "t2"],
    [kind |-> "Note", text |-> "t3"]>>
\* the entry recorded after those of the buffer "trace"
NextEntry(trace) ==
  IF trace = <<>> THEN RecordEntries[1]
  ELSE IF trace[Len(trace)].text = "t1" THEN RecordEntries[2]
  ELSE IF trace[Len(trace)].text = "t2" THEN RecordEntries[3]
  ELSE RecordEntries[1]

\* the outcome of a call that returns nothing
Silent(ag) == [ag |-> ag, raised |-> FALSE, reply |-> Msg("none"), intent |-> Null, slots |-> NoSlots]

\* agent._add_trace(kind, text)
RecordStep ==
  Returns(Silent(AddTrace(agent, NextEntry(agent.trace).kind, NextEntry(agent.trace).text)),
          [NoOp EXCEPT !.name = "_add_trace", !.kind = NextEntry(agent.trace).kind,
                       !.text = NextEntry(agent.trace).text])

\* agent.memory.add_trace(kind, text)
MemoryRecordStep ==
  Returns(Silent([agent EXCEPT !.memory = MemoryAddTrace(@, NextEntry(agent.memory.trace).kind,
                                                         NextEntry(agent.memory.trace).text)]),
          [NoOp EXCEPT !.name = "add_trace", !.kind = NextEntry(agent.memory.trace).kind,
                       !.text = NextEntry(agent.memory.trace).text])

\* utterances handled in the trace session; "trace show" is resolved to toggle_trace
TraceUtterances == {"balance", "hello", "", "trace show"}

NextTrace ==
  \/ RecordStep
  \/ MemoryRecordStep
  \/ ToggleTraceStep
  \/ \E user \in TraceUtterances : HandleQueryStep(user, "ok")

SpecTrace == Init /\ [][NextTrace]_vars

(***************************************************************************)
(* parse_intent_slots on its own: the utterance and the memory are drawn   *)
(* from bounded sets and the parser is applied to them.                    *)
(***************************************************************************)
\* a memory trace filled to its cap by Memory.add_trace
FullMemoryTrace ==
  [i \in 1..MemoryTraceCap |->
     [kind |-> RecordEntries[((i - 1) % 3) + 1].kind, text |-> RecordEntries[((i - 1) % 3) + 1].text]]
ResolveMemories ==
  {[NewMemory EXCEPT !.pending_transfer_to = pending, !.last_amount = amount,
                     !.last_recipient = recipient, !.last_n = n] :
     pending \in {Null, "alice"}, amount \in {NoNum, 120 * Scale},
     recipient \in {Null, "bob"}, n \in {3, 7}}
  \cup {[NewMemory EXCEPT !.pending_transfer_to = pending, !.last_amount = 120 * Scale,
                          !.last_recipient = "bob", !.trace = FullMemoryTrace] :
          pending \in {Null, "alice"}}

InitResolve ==
  /\ agent \in {[NewAgent EXCEPT !.memory = m] : m \in ResolveMemories}
  /\ op \in {[NoOp EXCEPT !.name = "call", !.user = user] : user \in ResolveUtterances}
  /\ before = agent
  /\ result = NoResult

\* the outcome p of parse_intent_slots, which gives no reply
Parsed(p) == [ag |-> p.ag, raised |-> p.raised, reply |-> Msg("none"), intent |-> p.intent, slots |-> p.slots]

\* intent, slots = agent.parse_intent_slots(user), for the utterance drawn
ResolveStep ==
  /\ op.name = "call"
  /\ Returns(Parsed(ParseIntentSlots(agent, op.user)),
             [op EXCEPT !.name = "parse_intent_slots"])

NextResolve == ResolveStep

SpecResolve == InitResolve /\ [][NextResolve]_vars

(***************************************************************************)
(* act on its own: the agent, the intent and the slot record are drawn     *)
(* from bounded sets and the dispatcher is called with them, once or       *)
(* repeatedly.                                                             *)
(***************************************************************************)
Intents ==
  {"help", "toggle_trace", "check_balance", "get_last_transactions", "deposit_money",
   "transfer_money", "pay_bill", "monthly_summary", "detect_fraud", "categorize_spending",
   "fallback"}
\* no amount, and the amounts 0, 2.5, 300 and 100000
DispatchAmounts == {NoNum, 0, 25, 300 * Scale, 100000 * Scale}
DispatchSlots ==
  {[NoSlots EXCEPT !.amount = amount, !.target = target, !.biller = biller] :
     amount \in DispatchAmounts, target \in {Null, "", "bob"},
     biller \in {Null, "electricity"}}
  \cup {[NoSlots EXCEPT !.n = 2, !.month = "July"]}
DispatchMemories ==
  {[NewMemory EXCEPT !.pending_transfer_to = pending, !.last_amount = amount,
                     !.last_recipient = "carol", !.last_biller = "water"] :
     pending \in {Null, "alice"}, amount \in {NoNum, 120 * Scale}}
\* the opening table, and one whose balance is 100 after a transfer of 49900
DispatchTables ==
  {NewTools,
   Append(NewTools, [description |-> "Transfer to", party |-> "carol",
                     amount |-> -(49900 * Scale), category |-> "Transfer"])}

InitDispatch ==
  /\ agent \in {[NewAgent EXCEPT !.memory = m, !.tools = t] :
                  m \in DispatchMemories, t \in DispatchTables}
  /\ op \in {[NoOp EXCEPT !.name = "call", !.intent = intent, !.slots = slots] :
               intent \in Intents \cup {"unknown"}, slots \in DispatchSlots}
  /\ before = agent
  /\ result = NoResult

\* reply = agent.act(intent, slots), for the intent and slots drawn
DispatchStep(io) ==
  /\ op.name \in {"call", "act"}
  /\ Allowed(Act(agent, op.intent, op.slots, TRUE, io), io)
  /\ Returns(Called(Act(agent, op.intent, op.slots, TRUE, io), op.intent, op.slots),
             [op EXCEPT !.name = "act", !.io = io])

\* reply = agent.act("check_balance", {}), following a call of act for another intent
BalanceStep ==
  /\ op.name = "act"
  /\ op.intent # "check_balance"
  /\ Returns(Called(Act(agent, "check_balance", NoSlots, FALSE, "ok"), "check_balance", NoSlots),
             [NoOp EXCEPT !.name = "act", !.intent = "check_balance"])

NextDispatch ==
  \/ \E io \in IO : DispatchStep(io)
  \/ BalanceStep

SpecDispatch == InitDispatch /\ [][NextDispatch]_vars

(***************************************************************************)
(* The properties.                                                         *)
(***************************************************************************)
Resolved == op.name = "parse_intent_slots"
Handled == op.name = "handle_query"
Dispatched == op.name = "act"
MemoryFrame(fields) == \A k \in fields : agent.memory[k] = before.memory[k]
AllMemoryFields == DOMAIN NewMemory

\* C1: when pending_transfer_to holds a recipient R and the utterance contains a
\* number, parse_intent_slots returns transfer_money with the first number as
\* amount and R as target, whatever else the utterance contains.
C1_PendingShortCircuit ==
  (/\ Resolved
   /\ before.memory.pending_transfer_to # Null
   /\ Analysis[op.user].nums # <<>>)
  => /\ ~result.raised
     /\ result.intent = "transfer_money"
     /\ result.slots.amount = Analysis[op.user].nums[1]
     /\ result.slots.target = before.memory.pending_transfer_to

\* a follow-up that also carries the balance keyword has been resolved
C1_Witness ==
  /\ Resolved
  /\ before.memory.pending_transfer_to = "alice"
  /\ op.user = "balance 300"
  /\ result.intent = "transfer_money"
  /\ result.slots.amount = 300 * Scale

AfterTransferToAlice == HandleQuery(NewAgent, "transfer to Alice", "ok").ag
TransferEntry(amount, recipient) ==
  [description |-> "Transfer to", party |-> recipient, amount |-> -amount,
   category |-> "Transfer"]
\* the two turns of the scenario, the recipient being written as name
TwoTurnTransfer(name) ==
  /\ (Handled /\ before = NewAgent /\ op.user = "transfer to Alice")
     => /\ ~result.raised
        /\ result.intent = "transfer_money"
        /\ result.slots.amount = NoNum
        /\ result.slots.target = name
        /\ agent.memory.pending_transfer_to = name
        /\ result.reply.kind = "AskTransferAmount"
        /\ agent.tools = before.tools
  /\ (Handled /\ before = AfterTransferToAlice /\ op.user = "300" /\ op.io = "ok")
     => /\ ~result.raised
        /\ result.intent = "transfer_money"
        /\ result.slots.amount = 300 * Scale
        /\ result.slots.target = name
        /\ agent.tools = Append(before.tools, TransferEntry(300 * Scale, name))
        /\ agent.memory.pending_transfer_to = Null

\* C2: in a new session "transfer to Alice" resolves to transfer_money with no
\* amount and target Alice, sets pending_transfer_to to Alice, prompts and leaves
\* the ledger alone; the following "300" transfers 300 to Alice with one ledger
\* entry of -300 and clears pending_transfer_to.
C2_TwoTurnTransfer == TwoTurnTransfer("Alice")

\* the scenario of C2 with the recipient as the code extracts it, in lower case
C2_TwoTurnTransferLowerCase == TwoTurnTransfer("alice")

\* C3: handling a transfer utterance that names a recipient and holds no number
\* sets pending_transfer_to to the recipient, prompts for the amount and appends
\* nothing to the ledger, in every session state.
C3_RecipientOnlySetsPending ==
  (/\ Handled
   /\ Intent[op.user] = "transfer_money"
   /\ Analysis[op.user].nums = <<>>
   /\ Analysis[op.user].target # Null)
  => /\ agent.memory.pending_transfer_to = Analysis[op.user].target
     /\ result.reply.kind = "AskTransferAmount"
     /\ agent.tools = before.tools

\* C4: when pending_transfer_to is set and the utterance handled next is a
\* command other than a transfer, pending_transfer_to is null afterwards.
C4_PendingClearedByOtherCommand ==
  (/\ Handled
   /\ before.memory.pending_transfer_to # Null
   /\ ~result.raised
   /\ result.intent \notin {"transfer_money", "fallback"})
  => agent.memory.pending_transfer_to = Null

\* C5: when a transfer or bill payment is rejected for insufficient funds, or
\* the ledger call fails, last_amount, last_recipient, last_biller and
\* pending_transfer_to keep their values.
C5_MemoryKeptOnFailure ==
  (/\ Dispatched
   /\ op.intent \in {"transfer_money", "pay_bill"}
   /\ result.reply.kind \in {"InsufficientFunds", "SorryError"})
  => MemoryFrame({"last_amount", "last_recipient", "last_biller", "pending_transfer_to"})

\* C6: act for transfer_money with no amount and a target T sets
\* pending_transfer_to to T and returns the prompt for the amount; the ledger
\* and every other memory field stay as they were.
C6_MissingAmountSetsPending ==
  (/\ Dispatched
   /\ op.intent = "transfer_money"
   /\ op.slots.amount = NoNum
   /\ op.slots.target # Null)
  => /\ ~result.raised
     /\ result.reply.kind = "AskTransferAmount"
     /\ agent.memory.pending_transfer_to = op.slots.target
     /\ MemoryFrame(AllMemoryFields \ {"pending_transfer_to"})
     /\ agent.tools = before.tools

\* the recipient bob has replaced the pending recipient alice
C6_Witness ==
  /\ Dispatched
  /\ op.intent = "transfer_money"
  /\ op.slots.amount = NoNum
  /\ op.slots.target = "bob"
  /\ before.memory.pending_transfer_to = "alice"
  /\ agent.memory.pending_transfer_to = "bob"

\* C7: for transfer_money and pay_bill, whenever the amount exceeds the balance
\* the reply is the insufficient-funds message and the ledger is unchanged,
\* also when the request is repeated.
C7_InsufficientFundsLeavesLedger ==
  (/\ Dispatched
   /\ \/ op.intent = "transfer_money" /\ op.slots.target # Null
      \/ op.intent = "pay_bill" /\ BillerOf(op.slots) # Null
   /\ op.slots.amount # NoNum
   /\ op.slots.amount > Balance(before.tools))
  => /\ result.reply.kind = "InsufficientFunds"
     /\ result.reply.balance = Balance(before.tools)
     /\ agent.tools = before.tools

\* a bill payment of 300 has been refused a second time on a balance of 100
C7_Witness ==
  /\ Dispatched
  /\ op.intent = "pay_bill"
  /\ op.slots.amount = 300 * Scale
  /\ Balance(before.tools) = 100 * Scale
  /\ before.memory.last_amount = 300 * Scale
  /\ result.reply.kind = "InsufficientFunds"
  /\ agent.tools = before.tools

\* what the spec names as keyword-presence facts of an utterance
KeywordFacts(user) ==
  LET ul == Analysis[user].ul
  IN  [help |-> ul \in HelpPhrases,
       trace |-> ul = "trace" \/ (~SplitIsEmpty(ul) /\ SplitFirst(ul) = "trace"),
       balance |-> \E k \in {"balance", "how much money", "how much do i have"} : Contains(ul, k),
       fraud |-> \E k \in {"fraud", "suspicious", "detect"} : Contains(ul, k),
       categorize |-> \E k \in {"categorize", "category", "spending"} : Contains(ul, k),
       summary |-> \E k \in {"summary", "month"} : Contains(ul, k),
       month |-> Analysis[user].month # Null,
       pay |-> Contains(ul, "pay"),
       bill |-> Contains(ul, "bill"),
       deposit |-> Contains(ul, "deposit") \/ Contains(ul, "add"),
       from |-> Contains(ul, "from"),
       number |-> Analysis[user].nums # <<>>,
       transfer |-> \E k \in {"transfer", "send", "give"} : Contains(ul, k),
       list |-> \/ \E k \in {"transaction", "last", "recent", "spent"} : Contains(ul, k)
                \/ ul = "show"]
Facts == [u \in Utterances |-> KeywordFacts(u)]
NoKeyword(user) ==
  LET f == Facts[user] IN
  ~(\/ f.help \/ f.trace \/ f.balance \/ f.fraud \/ f.categorize \/ f.summary \/ f.month
    \/ f.pay \/ f.bill \/ f.deposit \/ f.from \/ f.transfer \/ f.list)

\* C8: an utterance with no recognizable keyword and no month name, the empty
\* one included, resolves to fallback, and handling it gives the guidance reply
\* without raising and without changing the ledger or the memory.
C8_NoKeywordFallsBack ==
  (Handled /\ NoKeyword(op.user))
  => /\ ~result.raised
     /\ result.intent = "fallback"
     /\ result.reply.kind = "NotUnderstood"
     /\ agent.memory = before.memory
     /\ agent.tools = before.tools

ReplyKinds ==
  {"Capabilities", "TraceToggled", "Balance", "LastTransactions", "AskDepositAmount",
   "Deposited", "IncompleteDeposit", "AskTransferAmount", "AskAmountAndRecipient",
   "Transferred", "IncompleteTransfer", "InsufficientFunds", "AskPayAmount", "AskBiller",
   "Paid", "IncompletePayment", "MonthlySummary", "NoSuspicious", "Suspicious",
   "SpendingAnalysis", "NotUnderstood", "SorryError"}

\* C9: act never raises: for every intent and slot record it returns a reply,
\* and when the ledger operation throws, the reply is the error reply.
C9_ActNeverRaises ==
  Dispatched
  => /\ ~result.raised
     /\ result.reply.kind \in ReplyKinds
     /\ (op.io = "fail" => result.reply.kind = "SorryError")

\* a deposit whose to_csv call raised has been answered with the error reply
C9_Witness ==
  /\ Dispatched
  /\ op.intent = "deposit_money"
  /\ op.io = "fail"
  /\ Len(agent.tools) > Len(before.tools)
  /\ result.reply.kind = "SorryError"
  /\ ~result.raised

RECURSIVE FirstMatch(_)
\* the intent of the first rule of the table whose condition holds
FirstMatch(rules) ==
  IF rules = <<>> THEN "fallback"
  ELSE IF Head(rules)[2] THEN Head(rules)[1]
  ELSE FirstMatch(Tail(rules))
\* the cascade of the spec as an ordered rule table, payRule being its pay_bill rule
Cascade(f, payRule) ==
  FirstMatch(<< <<"help", f.help>>,
                <<"toggle_trace", f.trace>>,
                <<"check_balance", f.balance>>,
                <<"detect_fraud", f.fraud>>,
                <<"categorize_spending", f.categorize>>,
                <<"monthly_summary", f.summary \/ f.month>>,
                <<"pay_bill", payRule>>,
                <<"deposit_money", f.deposit /\ (f.from \/ f.number)>>,
                <<"transfer_money", f.transfer>>,
                <<"get_last_transactions", f.list>> >>)
ReturnedWithoutPending ==
  Resolved /\ ~result.raised /\ before.memory.pending_transfer_to = Null

\* C10 as stated: with no pending transfer the intent returned is that of the
\* ordered cascade in which pay_bill needs both "pay" and "bill".
C10_CascadePayNeedsBill ==
  ReturnedWithoutPending
  => result.intent = Cascade(Facts[op.user], Facts[op.user].pay /\ Facts[op.user].bill)

\* C10 as amended: with no pending transfer the intent returned is that of the
\* ordered cascade in which "pay" alone gives pay_bill.
C10_CascadePayAlone ==
  ReturnedWithoutPending
  => result.intent = Cascade(Facts[op.user], Facts[op.user].pay)

\* an utterance with both "balance" and "transfer" has been resolved to check_balance
C10_Witness ==
  /\ ReturnedWithoutPending
  /\ op.user = "balance transfer"
  /\ result.intent = "check_balance"

\* C11: handling an utterance that is resolved to pay_bill, holds an amount and
\* names no biller returns the prompt asking who to pay and appends nothing to
\* the ledger; the recipient of an earlier transfer is not taken as the biller.
C11_PayBillPromptsForBiller ==
  (/\ Handled
   /\ ~result.raised
   /\ result.intent = "pay_bill"
   /\ Analysis[op.user].nums # <<>>
   /\ Analysis[op.user].target = Null)
  => /\ result.reply.kind = "AskBiller"
     /\ agent.tools = before.tools

\* the last call was act for deposit_money with an amount
DepositDispatched == Dispatched /\ op.intent = "deposit_money" /\ op.slots.amount # NoNum
\* the table of the agent is its table before the call with one entry more
OneEntryAppended ==
  /\ Len(agent.tools) = Len(before.tools) + 1
  /\ SubSeq(agent.tools, 1, Len(before.tools)) = before.tools

\* C12: act for deposit_money with amount a appends exactly one entry of +a and
\* sets last_amount to a, and a check_balance dispatched next reports the
\* balance before the deposit plus a.
C12_DepositRoundTrip ==
  [][(DepositDispatched /\ op'.intent = "check_balance")
     => /\ OneEntryAppended
        /\ agent.tools[Len(agent.tools)].amount = op.slots.amount
        /\ agent.tools[Len(agent.tools)].description = "Deposit from"
        /\ agent.memory.last_amount = op.slots.amount
        /\ result'.reply.kind = "Balance"
        /\ result'.reply.balance = Balance(before.tools) + op.slots.amount]_vars

\* check_balance has reported 50002.5 after a deposit of 2.5 into the opening table
C12_Witness ==
  /\ Dispatched
  /\ op.intent = "check_balance"
  /\ Len(agent.tools) = 2
  /\ agent.tools[2].description = "Deposit from"
  /\ agent.tools[2].amount = 25
  /\ agent.memory.last_amount = 25
  /\ result.reply.kind = "Balance"
  /\ result.reply.balance = OpeningBalance + 25

\* C13: every get_last_transactions handled sets last_n to the n it used and
\* returns that many of the most recent entries (all of them if there are
\* fewer); for an utterance with no explicit count that n is the last_n of the
\* memory, which is 3 in a fresh session.
C13_ListLengthCarriedOver ==
  (Handled /\ ~result.raised /\ result.intent = "get_last_transactions")
  => /\ agent.memory.last_n = result.slots.n
     /\ result.reply.kind = "LastTransactions"
     /\ result.reply.rows = LastN(before.tools, result.slots.n)
     /\ agent.tools = before.tools
     /\ (Analysis[op.user].explicitN = NoNum => result.slots.n = before.memory.last_n)
     /\ (Analysis[op.user].explicitN = NoNum /\ before.memory = NewMemory
           => Len(result.reply.rows) = IF Len(before.tools) < 3 THEN Len(before.tools) ELSE 3)

\* "show transactions" has listed two of three entries, two being the count of
\* an earlier "show last two transactions"
C13_Witness ==
  /\ Handled
  /\ op.user = "show transactions"
  /\ before.memory.last_n = 2
  /\ Len(before.tools) = 3
  /\ result.reply.rows = SubSeq(before.tools, 2, 3)
  /\ agent.memory.last_n = 2

Recorded == op.name = "_add_trace"
MemoryRecorded == op.name = "add_trace"
Toggled == op.name = "toggle_trace"
\* the entry the last record call was made with, as each buffer holds it
AgentEntry == [marker |-> Marker(op.kind), kind |-> op.kind, text |-> op.text]
MemoryEntry == [kind |-> op.kind, text |-> op.text]
\* "after" is "trace" with "entry" recorded under the cap: appended while there
\* is room, and otherwise appended with the oldest entry dropped
RecordedUnderCap(trace, after, entry, cap) ==
  after = IF Len(trace) < cap THEN Append(trace, entry) ELSE Append(Tail(trace), entry)

\* C14: the agent's trace never holds more than 20 entries and the memory's
\* never more than 50; a record into a full buffer drops the oldest entry and
\* keeps the others in order.
C14_TraceBuffersBounded ==
  /\ Len(agent.trace) <= 20
  /\ Len(agent.memory.trace) <= 50
  /\ (Recorded /\ before.trace_enabled
        => RecordedUnderCap(before.trace, agent.trace, AgentEntry, 20))
  /\ (MemoryRecorded
        => RecordedUnderCap(before.memory.trace, agent.memory.trace, MemoryEntry, 50))

\* an entry has been recorded into a memory trace of 50 entries, next to a full
\* agent trace, and the oldest entry, which differed from its successor, is gone
C14_Witness ==
  /\ MemoryRecorded
  /\ Len(before.memory.trace) = 50
  /\ Len(agent.memory.trace) = 50
  /\ before.memory.trace[1] # before.memory.trace[2]
  /\ agent.memory.trace[1] = before.memory.trace[2]
  /\ agent.memory.trace[50] = MemoryEntry
  /\ Len(agent.trace) = 20
  /\ agent.trace[1].kind # "Control"

InitEntry == [marker |-> "Control", kind |-> "Control", text |-> "Trace system initialized"]

\* C15: while tracing is disabled a record call, and a handle_query that leaves
\* it disabled, leave the agent's trace as it was; toggle_trace flips the flag
\* and leaves the trace holding only the initialization entry when tracing
\* became enabled and nothing when it became disabled.
C15_TraceGating ==
  /\ (Recorded /\ ~before.trace_enabled => agent = before)
  /\ (Handled /\ ~before.trace_enabled /\ ~agent.trace_enabled => agent.trace = before.trace)
  /\ (Toggled => /\ agent.trace_enabled = ~before.trace_enabled
                 /\ agent.trace = IF agent.trace_enabled THEN <<InitEntry>> ELSE <<>>
                 /\ agent.memory = before.memory
                 /\ agent.tools = before.tools)

\* toggle_trace has disabled tracing and emptied a trace of 20 entries
C15_Witness ==
  /\ Toggled
  /\ before.trace_enabled
  /\ Len(before.trace) = 20
  /\ ~agent.trace_enabled
  /\ agent.trace = <<>>

\* C16: parse_intent_slots leaves every field of the memory, its trace
\* included, and the ledger as they were, for every utterance and memory.
C16_ResolveKeepsMemory ==
  Resolved => /\ agent.memory = before.memory
              /\ agent.tools = before.tools

\* a number has been resolved as the follow-up to a pending transfer, and the
\* memory, whose trace holds 50 entries, still has the pending recipient
C16_Witness ==
  /\ Resolved
  /\ op.user = "300"
  /\ result.intent = "transfer_money"
  /\ Len(before.memory.trace) = 50
  /\ Len(agent.memory.trace) = 50
  /\ before.memory.pending_transfer_to = "alice"
  /\ agent.memory.pending_transfer_to = "alice"

\* C17: in a session that starts with a non-negative balance the balance is
\* never negative, a handled utterance appends at most one ledger entry, and
\* the entries there were stay as they were.
C17_LedgerAppendOnlyNonNegative ==
  /\ Balance(agent.tools) >= 0
  /\ (Handled => /\ Len(agent.tools) \in {Len(before.tools), Len(before.tools) + 1}
                 /\ SubSeq(agent.tools, 1, Len(before.tools)) = before.tools)

\* a transfer of 50000 has been refused on a balance of 300, which a transfer of
\* the whole opening balance and a deposit of 300 had left
C17_Witness ==
  /\ Handled
  /\ op.user = "transfer 50000 to Bob"
  /\ Len(before.tools) = 3
  /\ before.tools[2].amount = -OpeningBalance
  /\ Balance(before.tools) = 300 * Scale
  /\ result.reply.kind = "InsufficientFunds"
  /\ agent.tools = before.tools

=============================================================================
